---------------------------- MODULE Spec2Model ----------------------------
(***************************************************************************)
(* create-svelte-lib (packages/create-svelte-lib/src/bin.ts): the          *)
(* interactive scaffolding run `create()` as a state machine.              *)
(*                                                                         *)
(* One run of the program is one behaviour.  The user's answers, the state *)
(* of the target directory, the registry's responses and the outcome of    *)
(* every external action (generator, template copy, subprocess) are the    *)
(* environment: each is drawn from a small set.  Every `await` of an       *)
(* external action is two steps, its start and its completion.             *)
(*                                                                         *)
(* A rejection of the promise create() returns is handled nowhere          *)
(* (bin.ts:340); the process then ends with exit code 1, Node's default    *)
(* since version 15.                                                       *)
(*                                                                         *)
(* Printed text is kept in ASCII: the check mark of the summary is written *)
(* "[ok]" and the cross of the resolver's warning "[x]"; colours (bold,    *)
(* cyan, grey, red) are not modelled.                                      *)
(***************************************************************************)
EXTENDS Naturals, Sequences, FiniteSets, TLC

VARIABLES
    pc,           \* position of create() in its body
    cwd,          \* bin.ts:23, the module-level target directory
    dirKind,      \* what fs.existsSync/readdirSync find at cwd ("unchecked" before)
    force,        \* answer to 'Directory not empty. Continue?' ("unasked" before)
    cancelledAt,  \* the question the user cancelled at ("none" if none so far)
    options,      \* results of p.group, one field per answered question
    registry,     \* the registry mirror: package name -> response of this run
    manifest,     \* <cwd>/package.json on disk (empty before the generator ran)
    svelteKitPkg, \* bin.ts:172, the manifest as read after the generator
    manifestWrites, \* number of fs.writeFileSync calls on the manifest
    queue,        \* packages resolveDeps still has to resolve, in order
    resolvedDeps, \* bin.ts:180
    lookups,      \* completed resolvePackageVersion calls, in order
    inflight,     \* external actions started and not yet completed
    log,          \* completed external actions with their outcome, in order
    out,          \* lines written to standard output (print, spinner, note)
    nextSteps,    \* the numbered lines printed under 'Next steps:'
    exitCode      \* the process's exit code (meaningful once the run has ended)

vars == <<pc, cwd, dirKind, force, cancelledAt, options, registry, manifest,
          svelteKitPkg, manifestWrites, queue, resolvedDeps, lookups,
          inflight, log, out, nextSteps, exitCode>>

-----------------------------------------------------------------------------
(* Bounds and input sets *)

\* At most this many of the four features are ticked in the multiselect.
MaxFeatures == 1

\* process.argv[2] || '.'
Argv == {".", "my-app"}

\* What the user may type at the directory question ("" is a bare Enter).
DirAnswers == {"", "my-app"}

\* What may be found at the target path.
DirKinds == {"absent", "empty", "nonempty", "file"}

Cancel == "<cancel>"

TypesChoices == {"checkjs", "typescript", "null"}

Features == {"eslint", "prettier", "playwright", "vitest"}

FeaturesChoices == {S \in SUBSET Features : Cardinality(S) <= MaxFeatures}

Extras == {"@changesets/cli", "tailwindcss"}

PackageManagers == {"npm", "pnpm", "yarn"}

Empty == [k \in {} |-> ""]

-----------------------------------------------------------------------------
(* Registry mirror *)

Packages ==
    {"@changesets/cli", "@svitejs/changesets-changelog-github-compact",
     "tailwindcss", "postcss", "autoprefixer"}

NetworkError == [net |-> "error", status |-> 0, json |-> "none", doc |-> Empty]

Http(status, json, doc) == [net |-> "ok", status |-> status, json |-> json, doc |-> doc]

\* A package.json document, a JSON error document, a body that is no JSON,
\* and the JSON value null.
PkgDoc == [name |-> "pkg", version |-> "1.2.3"]

ErrDoc == [message |-> "not found"]

\* The registries a run may meet: healthy, unreachable, and two that answer
\* each package differently.
Registries ==
    { [p \in Packages |-> Http(200, "object", PkgDoc)],
      [p \in Packages |-> NetworkError],
      [p \in Packages |->
          CASE p = "@changesets/cli" -> Http(404, "invalid", Empty)
            [] p = "@svitejs/changesets-changelog-github-compact" -> Http(200, "object", PkgDoc)
            [] p = "tailwindcss" -> Http(500, "object", PkgDoc)
            [] p = "postcss" -> Http(200, "null", Empty)
            [] OTHER -> Http(404, "object", ErrDoc)],
      [p \in Packages |->
          CASE p = "@changesets/cli" -> Http(200, "object", ErrDoc)
            [] p = "@svitejs/changesets-changelog-github-compact" -> Http(500, "invalid", Empty)
            [] p = "tailwindcss" -> NetworkError
            [] p = "postcss" -> Http(404, "object", PkgDoc)
            [] OTHER -> Http(200, "invalid", Empty)] }


-----------------------------------------------------------------------------
(* Pure functions *)

\* bin.ts:140-153.  `resp` is what request() and response.body.json() give for
\* this call.  request() rejects on a network error; json() throws on a body
\* that is no JSON; reading .version of null throws; the HTTP status is never
\* looked at, and a missing version field is interpolated as "undefined".
resolvePackageVersion(packageName, range, resp) ==
    LET caught == [value |-> range,
                   printed |-> << "[x] Failed to resolve package version for "
                                  \o packageName \o ", using " \o range \o " instead" >>]
    IN  IF resp.net = "error" THEN caught
        ELSE IF resp.json = "invalid" THEN caught
        ELSE IF resp.json = "null" THEN caught
        ELSE [value |-> "^" \o (IF "version" \in DOMAIN resp.doc
                                THEN resp.doc.version ELSE "undefined"),
              printed |-> << >>]

\* bin.ts:193-200, in the order Object.entries walks it.
devDeps ==
    << [name |-> "@changesets/cli",
        packages |-> << "@changesets/cli", "@svitejs/changesets-changelog-github-compact" >>],
       [name |-> "tailwindcss",
        packages |-> << "tailwindcss", "postcss", "autoprefixer" >>] >>

\* Mutant: resolveDeps without the `continue` of bin.ts:184.
RECURSIVE resolveDepsAll(_, _)
resolveDepsAll(deps, extras) ==
    IF deps = << >> THEN << >>
    ELSE Head(deps).packages \o resolveDepsAll(Tail(deps), extras)

\* bin.ts:182-188: the packages resolveDeps resolves, in order; a dependency
\* group whose name is not among the selected extras is skipped (`continue`).
RECURSIVE resolveDepsOrder(_, _)
resolveDepsOrder(deps, extras) ==
    IF deps = << >> THEN << >>
    ELSE (IF Head(deps).name \in extras THEN Head(deps).packages ELSE << >>)
         \o resolveDepsOrder(Tail(deps), extras)

\* Keys of a manifest whose values are mappings; every other value is a scalar
\* or an array.
MappingKeys == {"scripts", "devDependencies"}

MergeMapping(base, overlay) ==
    [k \in DOMAIN base \cup DOMAIN overlay |->
        IF k \in DOMAIN overlay THEN overlay[k] ELSE base[k]]

\* bin.ts:207, merger.mergeObjects([base, overlay]) of json-merger: mappings
\* are merged key by key, for anything else the overlay's value wins.
mergeObjects(base, overlay) ==
    [k \in DOMAIN base \cup DOMAIN overlay |->
        IF k \in DOMAIN base /\ k \in DOMAIN overlay
        THEN IF k \in MappingKeys THEN MergeMapping(base[k], overlay[k]) ELSE overlay[k]
        ELSE IF k \in DOMAIN overlay THEN overlay[k] ELSE base[k]]

\* bin.ts:202-205
newPackageJson(resolved) == [devDependencies |-> resolved, scripts |-> Empty]

\* bin.ts:159, path.basename(path.resolve(cwd)); "workdir" stands for the name
\* of the directory the program was started in.
Basename(dir) == IF dir = "." THEN "workdir" ELSE dir

\* bin.ts:327, path.relative(process.cwd(), cwd)
Relative(dir) == IF dir = "." THEN "" ELSE dir

\* What the generator (create-svelte, template 'skeletonlib') leaves in
\* package.json: its dev dependencies follow the options it is given
\* (bin.ts:159-165).  The document has a key the overlay does not define
\* ("type") and a dev dependency that one of the extras resolves again.
GeneratedManifest(name, o) ==
    [name |-> name, version |-> "0.0.1", type |-> "module",
     scripts |-> [dev |-> "vite dev", build |-> "vite build"],
     devDependencies |->
        [d \in {"svelte", "postcss"}
                \cup (IF o.types = "typescript" THEN {"typescript"} ELSE {})
                \cup o.features |->
            CASE d = "svelte" -> "^4.0.0"
              [] d = "postcss" -> "^8.0.0"
              [] d = "typescript" -> "^5.0.0"
              [] OTHER -> "^1.0.0"]]

\* The external actions of a run.
InstallCmd(pm) == << pm, "install" >>

GitInitCmd == << "git", "init" >>

GitAddCmd == << "git", "add", "-A" >>

GitCommitCmd(msg) == << "git", "commit", "-m", msg >>

CopyCmd(template) == << "copy", template >>

GeneratorCmd(dir) == << "create-svelte", dir >>

RequestCmd(pkg) == << "request", pkg >>

ChangesetInitCmd == << "npx", "changeset", "init" >>

TailwindInitCmd == << "npx", "tailwindcss", "init", "-p" >>

-----------------------------------------------------------------------------
(* Initial state *)

dirVars == <<cwd, dirKind, force>>

pkgVars == <<manifest, svelteKitPkg, manifestWrites, queue, resolvedDeps, lookups>>

\* bin.ts:15-26: the banner and the intro are printed, nothing has been asked
\* or done; cwd is the command line's directory or '.'.  The registry's
\* behaviour during this run is fixed here.
Init ==
    /\ pc = "start"
    /\ cwd \in Argv
    /\ dirKind = "unchecked"
    /\ force = "unasked"
    /\ cancelledAt = "none"
    /\ options = Empty
    /\ registry \in Registries
    /\ manifest = Empty
    /\ svelteKitPkg = Empty
    /\ manifestWrites = 0
    /\ queue = << >>
    /\ resolvedDeps = Empty
    /\ lookups = << >>
    /\ inflight = {}
    /\ log = << >>
    /\ out = << "create-svelte-lib version", "Welcome!" >>
    /\ nextSteps = << >>
    /\ exitCode = 0

-----------------------------------------------------------------------------
(* Target directory and questions, bin.ts:26-136 *)

\* process.exit(1)
Exit1 == pc' = "exit" /\ exitCode' = 1

\* bin.ts:28-37
PromptDir ==
    /\ pc = "start"
    /\ IF cwd = "."
       THEN \E dir \in DirAnswers \cup {Cancel} :
               IF dir = Cancel
               THEN Exit1 /\ cancelledAt' = "dir" /\ UNCHANGED cwd
               ELSE /\ cwd' = IF dir # "" THEN dir ELSE cwd
                    /\ pc' = "checkDir"
                    /\ UNCHANGED <<exitCode, cancelledAt>>
       ELSE pc' = "checkDir" /\ UNCHANGED <<cwd, exitCode, cancelledAt>>
    /\ UNCHANGED <<dirKind, force, options, registry, pkgVars,
                   inflight, log, out, nextSteps>>

\* bin.ts:39-40: the directory the program runs in exists and is a directory;
\* readdirSync of a path that is no directory throws, which rejects create().
CheckDir ==
    /\ pc = "checkDir"
    /\ \E kind \in DirKinds :
          /\ cwd = "." => kind \notin {"absent", "file"}
          /\ dirKind' = kind
          /\ IF kind = "file"
             THEN pc' = "rejected" /\ exitCode' = 1
             ELSE /\ pc' = IF kind = "nonempty" THEN "confirm" ELSE "askTypes"
                  /\ UNCHANGED exitCode
    /\ UNCHANGED <<cwd, force, cancelledAt, options, registry, pkgVars,
                   inflight, log, out, nextSteps>>

\* Mutant: bails out on the cancel symbol only, `if (p.isCancel(force))`.
ConfirmForceCancelOnly ==
    /\ pc = "confirm"
    /\ \E answer \in {"true", "false", Cancel} :
          /\ force' = answer
          /\ cancelledAt' = IF answer = Cancel THEN "force" ELSE cancelledAt
          /\ IF answer = Cancel
             THEN pc' = "exit" /\ exitCode' = 1
             ELSE pc' = "askTypes" /\ UNCHANGED exitCode
    /\ UNCHANGED <<cwd, dirKind, options, registry, manifest, svelteKitPkg,
                   manifestWrites, queue, resolvedDeps, lookups,
                   inflight, log, out, nextSteps>>

\* bin.ts:41-47: anything but `true` (false, or the cancel symbol) bails out.
ConfirmForce ==
    /\ pc = "confirm"
    /\ \E answer \in {"true", "false", Cancel} :
          /\ force' = answer
          /\ cancelledAt' = IF answer = Cancel THEN "force" ELSE cancelledAt
          /\ IF answer # "true"
             THEN Exit1
             ELSE pc' = "askTypes" /\ UNCHANGED exitCode
    /\ UNCHANGED <<cwd, dirKind, options, registry, pkgVars,
                   inflight, log, out, nextSteps>>

\* One question of p.group (bin.ts:51-136): a cancelled answer runs onCancel,
\* any other answer is stored under the question's key.
Ask(key, choices, next) ==
    /\ \/ Exit1 /\ cancelledAt' = key /\ UNCHANGED options
       \/ \E answer \in choices :
             /\ options' = (key :> answer) @@ options
             /\ pc' = next
             /\ UNCHANGED <<exitCode, cancelledAt>>
    /\ UNCHANGED <<dirVars, registry, pkgVars, inflight, log, out, nextSteps>>

PromptTypes ==
    /\ pc = "askTypes"
    /\ Ask("types", TypesChoices, "askFeatures")

PromptFeatures ==
    /\ pc = "askFeatures"
    /\ Ask("features", FeaturesChoices, "askExtras")

PromptExtras ==
    /\ pc = "askExtras"
    /\ Ask("extras", SUBSET Extras, "askGit")

PromptGit ==
    /\ pc = "askGit"
    /\ Ask("git", BOOLEAN, "askPackageManager")

PromptPackageManager ==
    /\ pc = "askPackageManager"
    /\ Ask("packageManager", PackageManagers, "askInstall")

PromptInstall ==
    /\ pc = "askInstall"
    /\ Ask("install", BOOLEAN, "generate")

-----------------------------------------------------------------------------
(* External actions *)

\* The promise create() returns is rejected and nothing handles it
\* (bin.ts:340): the process ends with exit code 1.
Rejected == pc' = "rejected" /\ exitCode' = 1

Begin(act) == act \notin inflight /\ inflight' = inflight \cup {act}

Settle(act, ok) ==
    /\ act \in inflight
    /\ inflight' = inflight \ {act}
    /\ log' = Append(log, [act |-> act, ok |-> ok])

\* `await act` outside any try block: a failure rejects create().
AwaitOrReject(act, next) ==
    /\ \/ Begin(act) /\ UNCHANGED <<pc, log, exitCode>>
       \/ \E ok \in BOOLEAN :
             /\ Settle(act, ok)
             /\ IF ok THEN pc' = next /\ UNCHANGED exitCode ELSE Rejected
    /\ UNCHANGED <<dirVars, cancelledAt, options, registry, pkgVars, out, nextSteps>>

\* `await act` inside a try block whose catch prints `caught` and falls
\* through to `after`.
AwaitOrCatch(act, started, next, done, caught, after) ==
    /\ \/ Begin(act) /\ out' = out \o started /\ UNCHANGED <<pc, log>>
       \/ \E ok \in BOOLEAN :
             /\ Settle(act, ok)
             /\ pc' = IF ok THEN next ELSE after
             /\ out' = out \o (IF ok THEN done ELSE caught)
    /\ UNCHANGED <<dirVars, cancelledAt, options, registry, pkgVars, nextSteps, exitCode>>

-----------------------------------------------------------------------------
(* Generator, manifest, base template: bin.ts:156-222 *)

\* bin.ts:158-175: the generator runs; then package.json is read and the
\* spinner started.  A failing generator rejects create().
CreateSvelteKitApp ==
    /\ pc = "generate"
    /\ \/ /\ Begin(GeneratorCmd(cwd))
          /\ UNCHANGED <<pc, log, exitCode, manifest, svelteKitPkg, queue, out>>
       \/ /\ Settle(GeneratorCmd(cwd), FALSE)
          /\ Rejected
          /\ UNCHANGED <<manifest, svelteKitPkg, queue, out>>
       \/ /\ Settle(GeneratorCmd(cwd), TRUE)
          /\ manifest' = GeneratedManifest(Basename(cwd), options)
          /\ svelteKitPkg' = manifest'
          /\ queue' = resolveDepsOrder(devDeps, options.extras)
          /\ out' = Append(out, "Resolving package versions")
          /\ pc' = "resolveDeps"
          /\ UNCHANGED exitCode
    /\ UNCHANGED <<dirVars, cancelledAt, options, registry, manifestWrites, resolvedDeps,
                   lookups, nextSteps>>

\* bin.ts:140
DefaultRange == "latest"

\* bin.ts:185-187: one turn of the inner loop, `resolvedDeps[pkg] = await
\* resolvePackageVersion(pkg)`.
ResolveDep ==
    /\ pc = "resolveDeps"
    /\ queue # << >>
    /\ LET pkg == Head(queue)
           r == resolvePackageVersion(pkg, DefaultRange, registry[pkg])
       IN  \/ /\ Begin(RequestCmd(pkg))
              /\ UNCHANGED <<queue, resolvedDeps, lookups, out>>
           \/ /\ RequestCmd(pkg) \in inflight
              /\ inflight' = inflight \ {RequestCmd(pkg)}
              /\ resolvedDeps' = (pkg :> r.value) @@ resolvedDeps
              /\ lookups' = Append(lookups, [packageName |-> pkg, range |-> DefaultRange,
                                             resp |-> registry[pkg], value |-> r.value,
                                             printed |-> r.printed])
              /\ out' = out \o r.printed
              /\ queue' = Tail(queue)
    /\ UNCHANGED <<pc, dirVars, cancelledAt, options, registry, manifest, svelteKitPkg,
                   manifestWrites, log, nextSteps, exitCode>>

\* bin.ts:202-211: the overlay is merged into the manifest read and the result
\* written over package.json.
WriteManifest ==
    /\ pc = "resolveDeps"
    /\ queue = << >>
    /\ manifest' = mergeObjects(svelteKitPkg, newPackageJson(resolvedDeps))
    /\ manifestWrites' = manifestWrites + 1
    /\ out' = Append(out, "Resolved package versions")
    /\ pc' = "copyBase"
    /\ UNCHANGED <<dirVars, cancelledAt, options, registry, svelteKitPkg, queue, resolvedDeps,
                   lookups, inflight, log, nextSteps, exitCode>>

\* bin.ts:216-222
BaseTemplate(types) == IF types = "typescript" THEN "typescript" ELSE "javascript"

CopyBaseTemplate ==
    /\ pc = "copyBase"
    /\ AwaitOrReject(CopyCmd(BaseTemplate(options.types)), "installDeps")

-----------------------------------------------------------------------------
(* Install and version control: bin.ts:224-245 *)

\* bin.ts:232-237, the catch of the install step
InstallCaught == << "Failed to install dependencies", "You can install them manually." >>

InstallDependencies ==
    /\ pc = "installDeps"
    /\ LET pm == options.packageManager
       IN  \/ /\ ~options.install
              /\ pc' = "gitInit"
              /\ UNCHANGED <<options, inflight, log, out>>
           \/ /\ options.install
              /\ Begin(InstallCmd(pm))
              /\ out' = Append(out, "Installing dependencies using " \o pm)
              /\ UNCHANGED <<pc, options, log>>
           \/ /\ Settle(InstallCmd(pm), TRUE)
              /\ out' = Append(out, "Installed dependencies using " \o pm)
              /\ pc' = "gitInit"
              /\ UNCHANGED options
           \/ /\ Settle(InstallCmd(pm), FALSE)
              /\ out' = out \o InstallCaught
              /\ options' = [options EXCEPT !.install = FALSE]
              /\ pc' = "gitInit"
    /\ UNCHANGED <<dirVars, cancelledAt, registry, pkgVars, nextSteps, exitCode>>

Skip(next) ==
    /\ pc' = next
    /\ UNCHANGED <<dirVars, cancelledAt, options, registry, pkgVars, inflight, log, out,
                   nextSteps, exitCode>>

\* bin.ts:240-242
GitInit ==
    /\ pc = "gitInit"
    /\ IF options.git
       THEN AwaitOrReject(GitInitCmd, "gitAdd")
       ELSE Skip("changesets")

\* Mutant: the stage is not followed by the commit of bin.ts:244.
GitAddWithoutCommit ==
    /\ pc = "gitAdd"
    /\ AwaitOrReject(GitAddCmd, "changesets")

\* bin.ts:243
GitAdd ==
    /\ pc = "gitAdd"
    /\ AwaitOrReject(GitAddCmd, "gitCommit")

\* bin.ts:244
GitCommit ==
    /\ pc = "gitCommit"
    /\ AwaitOrReject(GitCommitCmd("Initial commit"), "changesets")

-----------------------------------------------------------------------------
(* Extras: bin.ts:247-276 *)

\* bin.ts:257-260
ChangesetsCaught ==
    << "Failed to initialize changesets", "Initialize changesets manually.",
       "npx changeset init" >>

\* Mutant: the init subcommand has a try block of its own, so that the rest of
\* the sequence runs after its failure.
ChangesetsInitUnchained ==
    /\ pc = "changesets"
    /\ IF "@changesets/cli" \in options.extras
       THEN AwaitOrCatch(ChangesetInitCmd, << "Initializing changesets" >>,
                         "changesetsCopy", << >>, ChangesetsCaught, "changesetsCopy")
       ELSE Skip("tailwind")

\* bin.ts:247-252
ChangesetsInit ==
    /\ pc = "changesets"
    /\ IF "@changesets/cli" \in options.extras
       THEN AwaitOrCatch(ChangesetInitCmd, << "Initializing changesets" >>,
                         "changesetsCopy", << >>, ChangesetsCaught, "tailwind")
       ELSE Skip("tailwind")

\* bin.ts:253
ChangesetsCopy ==
    /\ pc = "changesetsCopy"
    /\ AwaitOrCatch(CopyCmd("changesets"), << >>,
                 "changesetsAdd", << >>, ChangesetsCaught, "tailwind")

\* bin.ts:254
ChangesetsAdd ==
    /\ pc = "changesetsAdd"
    /\ AwaitOrCatch(GitAddCmd, << >>,
                 "changesetsCommit", << >>, ChangesetsCaught, "tailwind")

\* Mutant: the commit is awaited outside the try block of bin.ts:250-260.
ChangesetsCommitUncaught ==
    /\ pc = "changesetsCommit"
    /\ AwaitOrReject(GitCommitCmd("feat: added changeset"), "tailwind")

\* bin.ts:255-260
ChangesetsCommit ==
    /\ pc = "changesetsCommit"
    /\ AwaitOrCatch(GitCommitCmd("feat: added changeset"), << >>,
                 "tailwind", << "Initialized changesets" >>, ChangesetsCaught, "tailwind")

\* bin.ts:272-275
TailwindCaught ==
    << "Failed to initialize tailwindcss", "Initialize tailwindcss manually.",
       "npx tailwindcss init -p" >>

\* bin.ts:263-267
TailwindInit ==
    /\ pc = "tailwind"
    /\ IF "tailwindcss" \in options.extras
       THEN AwaitOrCatch(TailwindInitCmd, << "Initializing tailwindcss" >>,
                         "tailwindCopy", << >>, TailwindCaught, "summary")
       ELSE Skip("summary")

\* bin.ts:268
TailwindCopy ==
    /\ pc = "tailwindCopy"
    /\ AwaitOrCatch(CopyCmd("tailwind"), << >>,
                 "tailwindAdd", << >>, TailwindCaught, "summary")

\* bin.ts:269
TailwindAdd ==
    /\ pc = "tailwindAdd"
    /\ AwaitOrCatch(GitAddCmd, << >>,
                 "tailwindCommit", << >>, TailwindCaught, "summary")

\* bin.ts:270-275
TailwindCommit ==
    /\ pc = "tailwindCommit"
    /\ AwaitOrCatch(GitCommitCmd("feat: added tailwindcss"), << >>,
                 "summary", << "Initialized tailwindcss" >>, TailwindCaught, "summary")

-----------------------------------------------------------------------------
(* Summary: bin.ts:278-337 *)

If(cond, lines) == IF cond THEN lines ELSE << >>

\* bin.ts:278-322
SummaryLines(o) ==
    << "Your project is ready!" >>
    \o (IF o.types = "typescript"
        THEN << "[ok] Typescript", "  Inside Svelte components, use <script lang=ts>" >>
        ELSE If(o.types = "checkjs",
                << "[ok] Type-checked JavaScript",
                   "  https://www.typescriptlang.org/tsconfig#checkJs" >>))
    \o If("eslint" \in o.features,
          << "[ok] ESLint", "  https://github.com/sveltejs/eslint-plugin-svelte" >>)
    \o If("prettier" \in o.features,
          << "[ok] Prettier", "  https://prettier.io/docs/en/options.html",
             "  https://github.com/sveltejs/prettier-plugin-svelte#options" >>)
    \o If("playwright" \in o.features, << "[ok] Playwright", "  https://playwright.dev" >>)
    \o If("vitest" \in o.features, << "[ok] Vitest", "  https://vitest.dev" >>)
    \o If("@changesets/cli" \in o.extras,
          << "[ok] Changesets", "  https://github.com/changesets/changesets" >>)
    \o If("tailwindcss" \in o.extras, << "[ok] Tailwindcss", "  https://tailwindcss.com/docs" >>)
    \o If(o.git, << "[ok] Git", "  Initialized a git repository." >>)

GitManually == "git init && git add -A && git commit -m \"Initial commit\""

DevServer(pm) == pm \o " run dev -- --open"

\* Mutant: the `cd` line prints `step` without incrementing it.
NextStepLinesNoIncrement(o, relative) ==
    LET pm == o.packageManager
        cd == If(relative # "", << [step |-> 1, cmd |-> "cd " \o relative] >>)
        inst == If(~o.install, << [step |-> 1, cmd |-> pm \o " install"] >>)
        step2 == 1 + Len(inst)
        git == If(~o.git, << [step |-> step2, cmd |-> GitManually] >>)
        step3 == step2 + Len(git)
    IN  cd \o inst \o git \o << [step |-> step3, cmd |-> DevServer(pm)] >>

\* bin.ts:325-335: each printed line takes the value of `step` and then
\* increments it (step++).
NextStepLines(o, relative) ==
    LET pm == o.packageManager
        step0 == 1
        cd == If(relative # "", << [step |-> step0, cmd |-> "cd " \o relative] >>)
        step1 == step0 + Len(cd)
        inst == If(~o.install, << [step |-> step1, cmd |-> pm \o " install"] >>)
        step2 == step1 + Len(inst)
        git == If(~o.git, << [step |-> step2, cmd |-> GitManually] >>)
        step3 == step2 + Len(git)
    IN  cd \o inst \o git \o << [step |-> step3, cmd |-> DevServer(pm)] >>

\* bin.ts:278-337: no await in between, the run ends normally.
PrintSummary ==
    /\ pc = "summary"
    /\ out' = out \o SummaryLines(options) \o << "Next steps:" >>
              \o << "To close the dev server, hit Ctrl-C" >>
    /\ nextSteps' = NextStepLines(options, Relative(cwd))
    /\ pc' = "done"
    /\ UNCHANGED <<dirVars, cancelledAt, options, registry, pkgVars, inflight, log, exitCode>>

-----------------------------------------------------------------------------
(* Specification *)

Next ==
    \/ PromptDir
    \/ CheckDir
    \/ ConfirmForce
    \/ PromptTypes
    \/ PromptFeatures
    \/ PromptExtras
    \/ PromptGit
    \/ PromptPackageManager
    \/ PromptInstall
    \/ CreateSvelteKitApp
    \/ ResolveDep
    \/ WriteManifest
    \/ CopyBaseTemplate
    \/ InstallDependencies
    \/ GitInit
    \/ GitAdd
    \/ GitCommit
    \/ ChangesetsInit
    \/ ChangesetsCopy
    \/ ChangesetsAdd
    \/ ChangesetsCommit
    \/ TailwindInit
    \/ TailwindCopy
    \/ TailwindAdd
    \/ TailwindCommit
    \/ PrintSummary

Spec == Init /\ [][Next]_vars

-----------------------------------------------------------------------------
(* Vocabulary of the properties *)

Lines(seq) == {seq[i] : i \in DOMAIN seq}

Ended == pc \in {"exit", "rejected", "done"}

\* Position of the first completed `act` in the log, 0 if there is none.
IndexOf(act) ==
    LET at == {i \in DOMAIN log : log[i].act = act}
    IN  IF at = {} THEN 0 ELSE CHOOSE i \in at : \A j \in at : i <= j

Completed(act) == IndexOf(act) > 0

Attempted(act) == Completed(act) \/ act \in inflight

Succeeded(act) == \E i \in DOMAIN log : log[i].act = act /\ log[i].ok

Failed(act) == \E i \in DOMAIN log : log[i].act = act /\ ~log[i].ok

\* The log falls into the base scaffold's part, the changesets sequence and
\* the tailwindcss sequence; each sequence begins with its init subcommand.
InChangesets(i) ==
    /\ Completed(ChangesetInitCmd)
    /\ i >= IndexOf(ChangesetInitCmd)
    /\ Completed(TailwindInitCmd) => i < IndexOf(TailwindInitCmd)

InTailwind(i) == Completed(TailwindInitCmd) /\ i >= IndexOf(TailwindInitCmd)

InBase(i) == ~InChangesets(i) /\ ~InTailwind(i)

IsGit(act) == act[1] = "git"

IsCommit(act) == act[1] = "git" /\ act[2] = "commit"

IsSubprocess(act) == act[1] \notin {"copy", "create-svelte"}

ChangesetsFailed == \E i \in DOMAIN log : ~log[i].ok /\ InChangesets(i)

TailwindFailed == \E i \in DOMAIN log : ~log[i].ok /\ InTailwind(i)

\* The messages of the commits made, in order.
RECURSIVE CommitsOf(_)
CommitsOf(l) ==
    IF l = << >> THEN << >>
    ELSE (IF IsCommit(Head(l).act) /\ Head(l).ok THEN << Head(l).act[4] >> ELSE << >>)
         \o CommitsOf(Tail(l))

NextStepCmds == {nextSteps[k].cmd : k \in DOMAIN nextSteps}

Answered(key) == key \in DOMAIN options

NoSideEffect ==
    /\ log = << >>
    /\ inflight = {}
    /\ lookups = << >>
    /\ manifest = Empty
    /\ manifestWrites = 0

-----------------------------------------------------------------------------
(* C1: install failure *)

InstallFailed ==
    /\ Answered("packageManager")
    /\ Failed(InstallCmd(options.packageManager))

\* C1: in every run in which installation was requested and the install
\* subprocess fails, the failure is caught: the install flag is false
\* afterwards, the run is never rejected, and when it has ended it has ended
\* normally, with exit code 0, the summary printed and the manual
\* '<packageManager> install' line among the next steps.
C1_InstallFailureRecovered ==
    InstallFailed =>
        /\ options.install = FALSE
        /\ pc # "rejected"
        /\ Ended =>
              /\ pc = "done"
              /\ exitCode = 0
              /\ "Your project is ready!" \in Lines(out)
              /\ (options.packageManager \o " install") \in NextStepCmds

-----------------------------------------------------------------------------
(* C2: failure of the base scaffold's git commands *)

BaseGitFailed ==
    \E i \in DOMAIN log : ~log[i].ok /\ IsGit(log[i].act) /\ InBase(i)

\* C2: in every run in which version control was requested, a failure of git
\* init, git add or git commit of the base scaffold is recoverable: it is
\* caught, so the run is not rejected, and once the run has ended the
\* selected extras' sequences were started, the summary was printed and the
\* exit code is 0.
C2_GitFailureRecovered ==
    BaseGitFailed =>
        /\ pc # "rejected"
        /\ Ended =>
              /\ pc = "done"
              /\ exitCode = 0
              /\ "Your project is ready!" \in Lines(out)
              /\ "@changesets/cli" \in options.extras => Completed(ChangesetInitCmd)
              /\ "tailwindcss" \in options.extras => Completed(TailwindInitCmd)

-----------------------------------------------------------------------------
(* C3: version control declined, tailwindcss selected *)

GitDeclinedWithTailwind ==
    /\ Answered("git")
    /\ ~options.git
    /\ "tailwindcss" \in options.extras

\* C3: in every run in which version control was declined and tailwindcss was
\* selected no git commit is ever performed, and a run that reaches the
\* summary has attempted the tailwind init subcommand, has attempted the
\* tailwind template copy (here: unless the init subcommand failed, which is
\* the chaining of C10) and lists the manual git-init line among the next steps.
C3_NoCommitWhenGitDeclined ==
    GitDeclinedWithTailwind =>
        /\ \A i \in DOMAIN log : ~(IsCommit(log[i].act) /\ log[i].ok)
        /\ pc = "done" =>
              /\ Completed(TailwindInitCmd)
              /\ Completed(CopyCmd("tailwind")) \/ Failed(TailwindInitCmd)
              /\ GitManually \in NextStepCmds

-----------------------------------------------------------------------------
(* C4: cancellation and the directory gate *)

\* C4: after a cancelled question, or a confirmation not given, the run has
\* ended with exit code 1 and nothing has been done: no generator, no manifest
\* write, no template copy, no subprocess, no request.  A run that ended by
\* process.exit has done nothing either.  The confirmation was asked exactly
\* when the target directory was found to exist with at least one entry.
C4_CancelIsClean ==
    /\ (cancelledAt # "none" \/ force \in {"false", Cancel}) =>
          pc = "exit" /\ exitCode = 1 /\ NoSideEffect
    /\ pc = "exit" => exitCode = 1 /\ NoSideEffect
    /\ pc \notin {"start", "checkDir", "confirm"} =>
          (force # "unasked" <=> dirKind = "nonempty")
    /\ pc = "confirm" => dirKind = "nonempty" /\ force = "unasked"

\* The user answered every question but the last and cancelled there, after
\* confirming a non-empty directory.
C4_Witness ==
    /\ pc = "exit"
    /\ cancelledAt = "install"
    /\ force = "true"
    /\ Answered("packageManager")

-----------------------------------------------------------------------------
(* C5: the version resolver *)

\* A successful lookup: the registry answered with status 200 and a JSON
\* document that has a version field.
LookupSucceeded(resp) ==
    /\ resp.net = "ok"
    /\ resp.status = 200
    /\ resp.json = "object"
    /\ "version" \in DOMAIN resp.doc

\* C5: every completed call of resolvePackageVersion returned a string; on a
\* successful lookup (status 200, a JSON document with a version field) it
\* returned that version after a caret and printed nothing; on every other
\* lookup (network error, body that is no document, non-success status) it
\* returned the range it was given and printed exactly one warning line.
C5_ResolverFallsBack ==
    \A i \in DOMAIN lookups :
        LET l == lookups[i]
        IN  IF LookupSucceeded(l.resp)
            THEN l.value = "^" \o l.resp.doc.version /\ l.printed = << >>
            ELSE l.value = l.range /\ Len(l.printed) = 1

-----------------------------------------------------------------------------
(* C6: the manifest that is written back *)

\* The packages the specification associates with each extra.
PackagesOfExtra(extra) ==
    IF extra = "@changesets/cli"
    THEN {"@changesets/cli", "@svitejs/changesets-changelog-github-compact"}
    ELSE {"tailwindcss", "postcss", "autoprefixer"}

SelectedPackages == UNION {PackagesOfExtra(e) : e \in options.extras}

\* C6: the manifest is written at most once; once written, its dev
\* dependencies are those of the generated manifest plus exactly the packages
\* of the selected extras, each selected package was looked up once and is
\* mapped to the string that lookup returned, every other dev dependency and
\* every other key of the generated manifest is carried through unchanged.
C6_ManifestOverlay ==
    /\ manifestWrites <= 1
    /\ manifestWrites = 1 =>
          /\ DOMAIN manifest = DOMAIN svelteKitPkg \cup {"devDependencies", "scripts"}
          /\ DOMAIN manifest.devDependencies =
                DOMAIN svelteKitPkg.devDependencies \cup SelectedPackages
          /\ {lookups[i].packageName : i \in DOMAIN lookups} = SelectedPackages
          /\ Len(lookups) = Cardinality(SelectedPackages)
          /\ \A i \in DOMAIN lookups :
                manifest.devDependencies[lookups[i].packageName] = lookups[i].value
          /\ \A d \in DOMAIN svelteKitPkg.devDependencies \ SelectedPackages :
                manifest.devDependencies[d] = svelteKitPkg.devDependencies[d]
          /\ \A k \in DOMAIN svelteKitPkg \ {"devDependencies"} :
                manifest[k] = svelteKitPkg[k]

\* Both extras were selected; the generated manifest already had one of their
\* packages and a key the overlay does not define; one lookup fell back.
C6_Witness ==
    /\ manifestWrites = 1
    /\ options.extras = Extras
    /\ "postcss" \in DOMAIN svelteKitPkg.devDependencies
    /\ "type" \in DOMAIN manifest
    /\ \E i \in DOMAIN lookups : lookups[i].value = DefaultRange
    /\ \E i \in DOMAIN lookups : lookups[i].value = "^1.2.3"

-----------------------------------------------------------------------------
(* C7: the extras are isolated from one another *)

ChangesetsPcs == {"changesets", "changesetsCopy", "changesetsAdd", "changesetsCommit"}

TailwindPcs == {"tailwind", "tailwindCopy", "tailwindAdd", "tailwindCommit"}

BothExtras == Answered("extras") /\ options.extras = Extras

ReachedExtras ==
    \/ pc \in ChangesetsPcs \cup TailwindPcs \cup {"summary", "done"}
    \/ Attempted(ChangesetInitCmd)
    \/ Attempted(TailwindInitCmd)

\* C7: in every run that reaches the extras step with both extras selected,
\* a failure in the changesets sequence is caught and warned about and the run
\* goes on to the tailwindcss sequence; a failure in the tailwindcss sequence
\* is caught and warned about and the run goes on to the summary; the run is
\* never rejected, can always take its next step until it is done, and ends
\* with exit code 0; changesets is always processed before tailwindcss.
C7_ExtrasIsolated ==
    (BothExtras /\ ReachedExtras) =>
        /\ pc \notin {"rejected", "exit"}
        /\ ChangesetsFailed =>
              /\ "Failed to initialize changesets" \in Lines(out)
              /\ pc \in TailwindPcs \cup {"summary", "done"}
        /\ TailwindFailed =>
              /\ "Failed to initialize tailwindcss" \in Lines(out)
              /\ pc \in {"summary", "done"}
        /\ Attempted(TailwindInitCmd) => Completed(ChangesetInitCmd)
        /\ pc \in {"summary", "done"} =>
              /\ Completed(TailwindInitCmd)
              /\ IndexOf(ChangesetInitCmd) < IndexOf(TailwindInitCmd)
        /\ pc = "done" => exitCode = 0 /\ "Your project is ready!" \in Lines(out)
        /\ pc # "done" => ENABLED Next

\* Both sequences failed, the first at its commit and the second at its init,
\* and the run completed.
C7_Witness ==
    /\ pc = "done"
    /\ exitCode = 0
    /\ BothExtras
    /\ Failed(GitCommitCmd("feat: added changeset"))
    /\ Failed(TailwindInitCmd)

-----------------------------------------------------------------------------
(* C8: commits and the order of the external actions *)

AllSubprocessesOk == \A i \in DOMAIN log : IsSubprocess(log[i].act) => log[i].ok

AllActionsOk == \A i \in DOMAIN log : log[i].ok

ExpectedCommits ==
    << "Initial commit" >>
    \o If("@changesets/cli" \in options.extras, << "feat: added changeset" >>)
    \o If("tailwindcss" \in options.extras, << "feat: added tailwindcss" >>)

\* At most one external action is in flight, and the 'Initial commit' is
\* started only after the generator has run, the manifest has been rewritten,
\* the base template has been copied and the install step, if any, is over.
SequentialOrder ==
    /\ Cardinality(inflight) <= 1
    /\ Attempted(GitCommitCmd("Initial commit")) =>
          /\ Succeeded(GeneratorCmd(cwd))
          /\ manifestWrites = 1
          /\ Succeeded(CopyCmd(BaseTemplate(options.types)))
          /\ options.install => Succeeded(InstallCmd(options.packageManager))
          /\ \A i \in DOMAIN log : IsCommit(log[i].act) =>
                i >= IndexOf(GitCommitCmd("Initial commit"))
                /\ Completed(GitCommitCmd("Initial commit"))

\* C8 as stated: in every completed run with version control requested in
\* which all subprocesses succeeded, the commits are 'Initial commit', then the
\* changesets commit, then the tailwindcss commit, one per selected extra plus
\* one; and the external actions run one after the other.
C8_CommitsWhenSubprocessesSucceed ==
    /\ SequentialOrder
    /\ (pc = "done" /\ options.git /\ AllSubprocessesOk) =>
          /\ CommitsOf(log) = ExpectedCommits
          /\ Len(CommitsOf(log)) = 1 + Cardinality(options.extras)

\* C8 as amended: the same, for the runs in which every subprocess and every
\* template copy succeeded.
C8_CommitsWhenAllSucceed ==
    /\ SequentialOrder
    /\ (pc = "done" /\ options.git /\ AllActionsOk) =>
          /\ CommitsOf(log) = ExpectedCommits
          /\ Len(CommitsOf(log)) = 1 + Cardinality(options.extras)

\* Everything succeeded with both extras selected: three commits.
C8_Witness ==
    /\ pc = "done"
    /\ options.git
    /\ options.install
    /\ options.extras = Extras
    /\ AllActionsOk
    /\ Len(CommitsOf(log)) = 3

-----------------------------------------------------------------------------
(* C9: the next-steps list *)

\* C9: in every run that reaches the summary, the list has the manual install
\* line exactly when the install flag is false, which is exactly when the
\* install was declined or failed; it has the manual git line exactly when
\* version control was declined; its last line is the dev-server command; and
\* its lines are numbered 1, 2, 3, ... without gap or repeat.
C9_NextSteps ==
    pc = "done" =>
        LET pm == options.packageManager
        IN  /\ (pm \o " install") \in NextStepCmds <=> ~options.install
            /\ ~options.install <=> (~Completed(InstallCmd(pm)) \/ Failed(InstallCmd(pm)))
            /\ GitManually \in NextStepCmds <=> ~options.git
            /\ nextSteps # << >>
            /\ nextSteps[Len(nextSteps)].cmd = pm \o " run dev -- --open"
            /\ \A k \in DOMAIN nextSteps : nextSteps[k].step = k
            /\ \A k \in DOMAIN nextSteps :
                  nextSteps[k].cmd = pm \o " run dev -- --open" => k = Len(nextSteps)

\* The longest list: cd, install after a failed install, git, dev server.
C9_Witness ==
    /\ pc = "done"
    /\ Failed(InstallCmd(options.packageManager))
    /\ ~options.git
    /\ Len(nextSteps) = 4

-----------------------------------------------------------------------------
(* C10: chaining inside one extra's sequence *)

\* C10: when an extra's init subcommand failed, nothing else of that extra's
\* sequence is ever started (no template copy, no stage, no commit); when its
\* stage failed, its commit is never started; and the summary of a completed
\* run lists each extra with its check mark exactly when it was selected,
\* whether its sequence succeeded or not.
C10_ExtraSequenceChained ==
    /\ Failed(ChangesetInitCmd) =>
          /\ \A j \in DOMAIN log : InChangesets(j) => log[j].act = ChangesetInitCmd
          /\ pc \notin ChangesetsPcs
          /\ ~Attempted(CopyCmd("changesets"))
          /\ ~Attempted(GitCommitCmd("feat: added changeset"))
    /\ Failed(TailwindInitCmd) =>
          /\ \A j \in DOMAIN log : InTailwind(j) => log[j].act = TailwindInitCmd
          /\ pc \notin TailwindPcs
          /\ ~Attempted(CopyCmd("tailwind"))
          /\ ~Attempted(GitCommitCmd("feat: added tailwindcss"))
    /\ (\E i \in DOMAIN log : ~log[i].ok /\ log[i].act = GitAddCmd /\ InChangesets(i)) =>
          ~Attempted(GitCommitCmd("feat: added changeset"))
    /\ (\E i \in DOMAIN log : ~log[i].ok /\ log[i].act = GitAddCmd /\ InTailwind(i)) =>
          ~Attempted(GitCommitCmd("feat: added tailwindcss"))
    /\ pc = "done" =>
          /\ "[ok] Changesets" \in Lines(out) <=> "@changesets/cli" \in options.extras
          /\ "[ok] Tailwindcss" \in Lines(out) <=> "tailwindcss" \in options.extras

\* A completed run in which the changesets init failed and the tailwindcss
\* stage failed, both extras being listed in the summary.
C10_Witness ==
    /\ pc = "done"
    /\ Failed(ChangesetInitCmd)
    /\ \E i \in DOMAIN log : ~log[i].ok /\ log[i].act = GitAddCmd /\ InTailwind(i)
    /\ "[ok] Changesets" \in Lines(out)
    /\ "[ok] Tailwindcss" \in Lines(out)

=============================================================================
